---- MODULE Spec2Model ----
(***************************************************************************)
(* Model of sort_excel.py: the record pipeline                             *)
(*   _make_tables -> _write_excel (-> _sort_for_date_sheet ->              *)
(*   _parse_time_like/tosec)                                               *)
(* of the appointment sheet sorter.                                        *)
(*                                                                         *)
(* Text is modelled as a sequence of one-character strings; labels whose   *)
(* order matters are sequences of Unicode code points.  A nullable cell is *)
(* <<>> (NaN / NaT / None) or <<v>>.                                       *)
(***************************************************************************)
EXTENDS Integers, Sequences, FiniteSets, TLC

VARIABLES pc, cols, df, loan, cancel, combined, sheets, saved, tpc, tin, tout

vars == <<pc, cols, df, loan, cancel, combined, sheets, saved, tpc, tin, tout>>

pipeVars == <<pc, cols, df, loan, cancel, combined, sheets, saved>>

timeVars == <<tpc, tin, tout>>

(***************************************************************************)
(* Bounds                                                                  *)
(***************************************************************************)
\* longest time text fed to tosec
MaxLen == 5

\* most raw rows in the source sheet
MaxRows == 2

\* most records of a unified set handed directly to _write_excel
MaxPart == 2

(***************************************************************************)
(* Nullable cells                                                          *)
(***************************************************************************)
NaN == <<>>

Some(v) == <<v>>

IsNa(c) == c = <<>>

Val(c) == c[1]

(***************************************************************************)
(* Text helpers (str.strip, str.split, int)                                *)
(***************************************************************************)
Digits == {"0", "1", "2", "3", "4", "5", "6", "7", "8", "9"}

DigitVal(ch) ==
  CASE ch = "0" -> 0 [] ch = "1" -> 1 [] ch = "2" -> 2 [] ch = "3" -> 3
    [] ch = "4" -> 4 [] ch = "5" -> 5 [] ch = "6" -> 6 [] ch = "7" -> 7
    [] ch = "8" -> 8 [] ch = "9" -> 9

DigitChar(n) ==
  CASE n = 0 -> "0" [] n = 1 -> "1" [] n = 2 -> "2" [] n = 3 -> "3"
    [] n = 4 -> "4" [] n = 5 -> "5" [] n = 6 -> "6" [] n = 7 -> "7"
    [] n = 8 -> "8" [] n = 9 -> "9"

RECURSIVE LStrip(_)
LStrip(t) == IF t # <<>> /\ Head(t) = " " THEN LStrip(Tail(t)) ELSE t

RECURSIVE RStrip(_)
RStrip(t) ==
  IF t # <<>> /\ t[Len(t)] = " " THEN RStrip(SubSeq(t, 1, Len(t) - 1)) ELSE t

\* str.strip()
Strip(t) == RStrip(LStrip(t))

\* str.split(sep): the list of the parts between the separators
RECURSIVE Split(_, _)
Split(t, sep) ==
  IF \E i \in 1..Len(t) : t[i] = sep
  THEN LET i == CHOOSE k \in 1..Len(t) :
                  t[k] = sep /\ \A j \in 1..(k - 1) : t[j] # sep
       IN  <<SubSeq(t, 1, i - 1)>> \o Split(SubSeq(t, i + 1, Len(t)), sep)
  ELSE <<t>>

RECURSIVE DigitsValue(_)
DigitsValue(t) ==
  IF t = <<>> THEN 0
  ELSE 10 * DigitsValue(SubSeq(t, 1, Len(t) - 1)) + DigitVal(t[Len(t)])

AllDigits(t) == t # <<>> /\ \A i \in 1..Len(t) : t[i] \in Digits

\* int(text): surrounding whitespace is ignored, one optional sign, then
\* one or more digits; anything else raises ValueError (NaN here).
PyInt(t) ==
  LET u == Strip(t)
      signed == u # <<>> /\ Head(u) \in {"-", "+"}
      body == IF signed THEN Tail(u) ELSE u
  IN  IF ~AllDigits(body) THEN NaN
      ELSE IF signed /\ Head(u) = "-" THEN Some(0 - DigitsValue(body))
      ELSE Some(DigitsValue(body))

(***************************************************************************)
(* _parse_time_like / tosec                                                *)
(***************************************************************************)
\* Series.fillna(''): a missing cell becomes the empty text
FillNaEmpty(c) == IF IsNa(c) THEN <<>> ELSE Val(c)

\* tosec: seconds since midnight of 'H', 'H:MM' or 'H:MM:SS'; NaN for the
\* empty text and whenever int() raises.  Components after the third are
\* never looked at.
tosec(x) ==
  LET t == Strip(x)
      parts == Split(t, ":")
      h == PyInt(parts[1])
      m == IF Len(parts) > 1 THEN PyInt(parts[2]) ELSE Some(0)
      sec == IF Len(parts) > 2 THEN PyInt(parts[3]) ELSE Some(0)
  IN  IF t = <<>> THEN NaN
      ELSE IF IsNa(h) \/ IsNa(m) \/ IsNa(sec) THEN NaN
      ELSE Some(Val(h) * 3600 + Val(m) * 60 + Val(sec))

\* one cell of _parse_time_like: fillna('') then tosec
ParseTimeCell(c) == tosec(FillNaEmpty(c))

(***************************************************************************)
(* Specification of the time parser alone                                  *)
(***************************************************************************)
TimeChars == {"1", "9", ":", " ", "-", "x"}

RECURSIVE TextsUpTo(_, _)
TextsUpTo(chars, n) ==
  IF n = 0 THEN {<<>>}
  ELSE LET shorter == TextsUpTo(chars, n - 1)
       IN  shorter \cup {Append(t, ch) : t \in shorter, ch \in chars}

TimeInputs == {NaN} \cup {Some(t) : t \in TextsUpTo(TimeChars, MaxLen)}

InitIdlePipe ==
  /\ pc = "idle"
  /\ cols = {}
  /\ df = <<>>
  /\ loan = [columns |-> <<>>, rows |-> <<>>]
  /\ cancel = [columns |-> <<>>, rows |-> <<>>]
  /\ combined = [columns |-> <<>>, rows |-> <<>>]
  /\ sheets = <<>>
  /\ saved = FALSE

InitTime ==
  /\ InitIdlePipe
  /\ tpc = "ready"
  /\ tin \in TimeInputs
  /\ tout = NaN

ParseTime ==
  /\ tpc = "ready"
  /\ tout' = ParseTimeCell(tin)
  /\ tpc' = "parsed"
  /\ UNCHANGED <<tin, pipeVars>>

NextTime == ParseTime

SpecTime == InitTime /\ [][NextTime]_vars

(***************************************************************************)
(* Configuration (column headings are romanised)                           *)
(*   YuushiJikkoubi = 融資実行日, KinshoubiMendanbi = 金消日・面談日,       *)
(*   Hiduke = 日付, Tantou = 担当, Jikan = 時間, Shikibetsu = 識別, ...     *)
(***************************************************************************)
\* 担当順
TantouJun ==
  <<"Kawachi", "Iwakawa", "Sugita", "Masaki", "Yoshida",
    "Wakimoto", "Nakamoto", "Sugimura", "Houjou", "Ueno">>

COLS_LOAN ==
  <<"YuushiJikkoubi", "Keitai", "OkyakusamaShimei", "Bukken", "IraiNaiyou",
    "Tantou", "Kankatsu", "TachiaiJikan", "TachiaiBasho", "Tachiaisha",
    "ToujitsuShinsei">>

COLS_CANCEL ==
  <<"KinshoubiMendanbi", "Keitai", "OkyakusamaShimei", "Bukken",
    "IraiNaiyou", "Tantou", "Kankatsu", "KinshouJikan",
    "KinshouBashoMendanBasho", "IshiKakunin", "YuushiJikkoubi">>

COLS_OUT_ORDER ==
  <<"Hiduke", "Keitai", "OkyakusamaShimei", "Bukken", "IraiNaiyou",
    "Tantou", "Kankatsu", "Jikan", "Basho", "Kakuninsha", "Shinsei",
    "Shikibetsu">>

Range(f) == {f[i] : i \in DOMAIN f}

\* the label '融資実行日' as its code points
LoanLabel == <<34701, 36039, 23455, 34892, 26085>>

\* the label '金消日・面談日' as its code points
CancelLabel == <<37329, 28040, 26085, 12539, 38754, 35527, 26085>>

\* the rename of the loan view
LoanRename(c) ==
  CASE c = "YuushiJikkoubi" -> "Hiduke"
    [] c = "TachiaiJikan" -> "Jikan"
    [] c = "TachiaiBasho" -> "Basho"
    [] c = "Tachiaisha" -> "Kakuninsha"
    [] c = "ToujitsuShinsei" -> "Shinsei"
    [] OTHER -> c

\* the rename of the cancel view
CancelRename(c) ==
  CASE c = "KinshoubiMendanbi" -> "Hiduke"
    [] c = "KinshouJikan" -> "Jikan"
    [] c = "KinshouBashoMendanBasho" -> "Basho"
    [] c = "IshiKakunin" -> "Kakuninsha"
    [] c = "YuushiJikkoubi" -> "Shinsei"
    [] OTHER -> c

\* [c for c in COLS_OUT_ORDER if c in frame.columns]
OutColumns(present) ==
  LET Keep(c) == c \in present IN SelectSeq(COLS_OUT_ORDER, Keep)

(***************************************************************************)
(* Dates: Timestamp <-> 'YYYY/MM/DD'                                       *)
(***************************************************************************)
RECURSIVE ZeroPad(_, _)
\* the decimal digits of n, zero-padded to width w
ZeroPad(n, w) ==
  IF w = 0 THEN <<>> ELSE Append(ZeroPad(n \div 10, w - 1), DigitChar(n % 10))

\* _dt_to_str on one cell: strftime('%Y/%m/%d'), NaT stays missing
DtToStr(c) ==
  IF IsNa(c) THEN NaN
  ELSE Some(ZeroPad(Val(c).y, 4) \o <<"/">> \o ZeroPad(Val(c).m, 2)
              \o <<"/">> \o ZeroPad(Val(c).d, 2))

\* pd.to_datetime(errors='coerce') on one cell holding display text
ToDatetime(c) ==
  IF IsNa(c) THEN NaN
  ELSE LET parts == Split(Val(c), "/")
       IN  IF Len(parts) # 3 \/ \E i \in 1..3 : IsNa(PyInt(parts[i]))
           THEN NaN
           ELSE Some([y |-> Val(PyInt(parts[1])), m |-> Val(PyInt(parts[2])),
                      d |-> Val(PyInt(parts[3])), h |-> 0])

\* the position of a Timestamp on the time line (what datetime64 compares)
Ordinal(ts) == ((ts.y * 12 + ts.m) * 31 + ts.d) * 24 + ts.h

\* a datetime column cell as a sort key
DateKey(c) == IF IsNa(c) THEN NaN ELSE Some(Ordinal(Val(c)))

\* str.replace(old, new) for one-character old and new
Replace(t, old, new) == [i \in 1..Len(t) |-> IF t[i] = old THEN new ELSE t[i]]

(***************************************************************************)
(* Sorting                                                                 *)
(***************************************************************************)
\* the indices of a set in ascending order
RECURSIVE Ascending(_)
Ascending(S) ==
  IF S = {} THEN <<>>
  ELSE LET i == CHOOSE k \in S : \A j \in S : k <= j
       IN  <<i>> \o Ascending(S \ {i})

\* every order of the indices S that is ascending by key; equal keys may come
\* out in any order (quicksort is not a stable sort)
RECURSIVE TieOrders(_, _)
TieOrders(keys, S) ==
  IF S = {} THEN {<<>>}
  ELSE LET mins == {i \in S : \A j \in S : Val(keys[i]) <= Val(keys[j])}
       IN  UNION {{<<i>> \o r : r \in TieOrders(keys, S \ {i})} : i \in mins}

\* faulty variant of nargsort: the missing keys are dropped, not put last
nargsort_dropna(keys) ==
  TieOrders(keys, {i \in DOMAIN keys : ~IsNa(keys[i])})

\* DataFrame.sort_values(by=<one column>) with the defaults kind='quicksort',
\* na_position='last': the indexers it may produce.  The present keys are
\* sorted ascending with ties in an unspecified order, the missing keys
\* follow in their original order.
nargsort(keys) ==
  LET nonNan == {i \in DOMAIN keys : ~IsNa(keys[i])}
      nanIdx == Ascending({i \in DOMAIN keys : IsNa(keys[i])})
  IN  {p \o nanIdx : p \in TieOrders(keys, nonNan)}

\* frame.iloc[indexer]
RECURSIVE Take(_, _)
Take(rows, p) ==
  IF p = <<>> THEN <<>> ELSE <<rows[Head(p)]>> \o Take(rows, Tail(p))

RECURSIVE LexLess(_, _)
\* str < str: code point by code point, a proper prefix is smaller
LexLess(a, b) ==
  IF b = <<>> THEN FALSE
  ELSE IF a = <<>> THEN TRUE
  ELSE IF Head(a) # Head(b) THEN Head(a) < Head(b)
  ELSE LexLess(Tail(a), Tail(b))

\* faulty variant of NaLastLess: NaN first (na_position='first')
NaLastLess_nafirst(a, b) ==
  IF IsNa(b) THEN FALSE ELSE IF IsNa(a) THEN TRUE ELSE Val(a) < Val(b)

\* float order with NaN last (na_position='last')
NaLastLess(a, b) ==
  IF IsNa(a) THEN FALSE ELSE IF IsNa(b) THEN TRUE ELSE Val(a) < Val(b)

(***************************************************************************)
(* _sort_for_date_sheet                                                    *)
(***************************************************************************)
\* the rank given to an assignee that is not in the list
UnlistedRank == 9999

\* Series.astype(str) on one cell: a missing value becomes the text 'nan'
AsTypeStr(c) == IF IsNa(c) THEN "nan" ELSE Val(c)

\* faulty variant of Rank: fillna(0), an unlisted name ranks with the first
Rank_unlistedZero(name) ==
  IF \E i \in DOMAIN TantouJun : TantouJun[i] = name
  THEN (CHOOSE i \in DOMAIN TantouJun :
          /\ TantouJun[i] = name
          /\ \A j \in DOMAIN TantouJun : TantouJun[j] = name => j <= i) - 1
  ELSE 0

\* .map(order).fillna(9999).astype(int) on one name, with
\* order = {name: i for i, name in enumerate(担当順)}
Rank(name) ==
  IF \E i \in DOMAIN TantouJun : TantouJun[i] = name
  THEN (CHOOSE i \in DOMAIN TantouJun :
          /\ TantouJun[i] = name
          /\ \A j \in DOMAIN TantouJun : TantouJun[j] = name => j <= i) - 1
  ELSE UnlistedRank

\* the sort keys (_k1, _k2, _k3) of one record
SortKeys(r) ==
  <<r.Shikibetsu, Rank(AsTypeStr(r.Tantou)), ParseTimeCell(r.Jikan)>>

\* (_k1, _k2, _k3) of a before (_k1, _k2, _k3) of b under
\* ascending=[True, True, True], missing values last
KeyLess(a, b) ==
  \/ LexLess(a[1], b[1])
  \/ a[1] = b[1] /\ a[2] < b[2]
  \/ a[1] = b[1] /\ a[2] = b[2] /\ NaLastLess(a[3], b[3])

\* faulty variant of LexsortIndexer: equal keys come out in reverse order
RECURSIVE LexsortIndexer_tiesReversed(_, _)
LexsortIndexer_tiesReversed(keys, S) ==
  IF S = {} THEN <<>>
  ELSE LET i == CHOOSE k \in S : \A j \in S \ {k} :
                  \/ KeyLess(keys[k], keys[j])
                  \/ ~KeyLess(keys[j], keys[k]) /\ k > j
       IN  <<i>> \o LexsortIndexer_tiesReversed(keys, S \ {i})

\* sort_values(by=[three columns]): the lexsort indexer, a stable sort
RECURSIVE LexsortIndexer(_, _)
LexsortIndexer(keys, S) ==
  IF S = {} THEN <<>>
  ELSE LET i == CHOOSE k \in S : \A j \in S \ {k} :
                  \/ KeyLess(keys[k], keys[j])
                  \/ ~KeyLess(keys[j], keys[k]) /\ k < j
       IN  <<i>> \o LexsortIndexer(keys, S \ {i})

\* df_date.assign(_k1=key1, _k2=key2, _k3=key3): the key columns
RECURSIVE KeyColumns(_)
KeyColumns(rows) ==
  IF rows = <<>> THEN <<>>
  ELSE <<SortKeys(Head(rows))>> \o KeyColumns(Tail(rows))

sort_for_date_sheet(rows) ==
  Take(rows, LexsortIndexer(KeyColumns(rows), DOMAIN rows))

(***************************************************************************)
(* _make_tables                                                            *)
(***************************************************************************)
EmptyFrame == [columns |-> <<>>, rows |-> <<>>]

\* one row of the loan view: 識別 assigned, columns renamed, date rendered
LoanRow(r, i) ==
  [idx |-> i, Hiduke |-> DtToStr(r.YuushiJikkoubi), Tantou |-> r.Tantou,
   Jikan |-> r.TachiaiJikan, Shikibetsu |-> LoanLabel]

\* faulty variant of CancelRow: dated by 融資実行日 instead of 金消日・面談日
CancelRow_loanDate(r, i) ==
  [idx |-> i, Hiduke |-> DtToStr(r.YuushiJikkoubi), Tantou |-> r.Tantou,
   Jikan |-> r.KinshouJikan, Shikibetsu |-> CancelLabel]

\* one row of the cancel view
CancelRow(r, i) ==
  [idx |-> i, Hiduke |-> DtToStr(r.KinshoubiMendanbi), Tantou |-> r.Tantou,
   Jikan |-> r.KinshouJikan, Shikibetsu |-> CancelLabel]

LoanColumns(present) ==
  OutColumns({LoanRename(c) : c \in present} \cup {"Shikibetsu"})

CancelColumns(present) ==
  OutColumns({CancelRename(c) : c \in present} \cup {"Shikibetsu"})

\* the loan views sort_values(by='融資実行日') may produce
LoanViews(frame) ==
  LET keys == [i \in DOMAIN frame |-> DateKey(frame[i].YuushiJikkoubi)]
      rows == [i \in DOMAIN frame |-> LoanRow(frame[i], i)]
  IN  {Take(rows, p) : p \in nargsort(keys)}

\* the cancel views sort_values(by='金消日・面談日') may produce
CancelViews(frame) ==
  LET keys == [i \in DOMAIN frame |-> DateKey(frame[i].KinshoubiMendanbi)]
      rows == [i \in DOMAIN frame |-> CancelRow(frame[i], i)]
  IN  {Take(rows, p) : p \in nargsort(keys)}

\* pd.concat([loan, cancel], ignore_index=True): the new index is the position
Concat(l, c) ==
  [i \in 1..(Len(l) + Len(c)) |->
     [(IF i <= Len(l) THEN l[i] ELSE c[i - Len(l)]) EXCEPT !.idx = i]]

\* the unified sets sort_values(by=['_d']) may produce
CombinedViews(l, c) ==
  LET rows == Concat(l, c)
      keys == [i \in DOMAIN rows |-> DateKey(ToDatetime(rows[i].Hiduke))]
  IN  {Take(rows, p) : p \in nargsort(keys)}

\* faulty variant of MakeTablesRaises: only the loan date column is required
MakeTablesRaises_loanOnly(present) == "YuushiJikkoubi" \notin present

\* sort_values(by=<column>) raises KeyError when the column is absent
MakeTablesRaises(present) ==
  "YuushiJikkoubi" \notin present \/ "KinshoubiMendanbi" \notin present

MakeTables ==
  /\ pc = "start"
  /\ ~MakeTablesRaises(cols)
  /\ \E l \in LoanViews(df), c \in CancelViews(df) :
       \E u \in CombinedViews(l, c) :
         /\ loan' = [columns |-> LoanColumns(cols), rows |-> l]
         /\ cancel' = [columns |-> CancelColumns(cols), rows |-> c]
         /\ combined' =
              [columns |-> OutColumns(Range(LoanColumns(cols))
                                        \cup Range(CancelColumns(cols))),
               rows |-> u]
  /\ pc' = "tables"
  /\ UNCHANGED <<cols, df, sheets, saved, timeVars>>

\* the KeyError leaves sort_excel before _write_excel is called
MakeTablesRaise ==
  /\ pc = "start"
  /\ MakeTablesRaises(cols)
  /\ pc' = "failed"
  /\ UNCHANGED <<cols, df, loan, cancel, combined, sheets, saved, timeVars>>

(***************************************************************************)
(* _write_excel (the tables it writes; cell formatting changes no record)  *)
(***************************************************************************)
\* combined['日付'].dropna().unique(): order of first appearance
RECURSIVE Unique(_)
Unique(cells) ==
  IF cells = <<>> THEN <<>>
  ELSE LET rest == Unique(SubSeq(cells, 1, Len(cells) - 1))
           c == cells[Len(cells)]
       IN  IF IsNa(c) \/ c \in Range(rest) THEN rest ELSE Append(rest, c)

DateValues(frame) == Unique([i \in DOMAIN frame.rows |-> frame.rows[i].Hiduke])

\* faulty variant of DateRows: the undated records are taken along
DateRows_withUndated(rows, date) ==
  LET Match(r) == r.Hiduke = date \/ IsNa(r.Hiduke) IN SelectSeq(rows, Match)

\* combined[combined['日付'] == date]
DateRows(rows, date) ==
  LET Match(r) == r.Hiduke = date IN SelectSeq(rows, Match)

\* the sheet of one date
DateSheet(frame, date) ==
  [name |-> Replace(Val(date), "/", "-"),
   columns |-> frame.columns,
   rows |-> sort_for_date_sheet(DateRows(frame.rows, date))]

FixedSheets(l, c, u) ==
  <<[name |-> <<"sorted_by_YuushiJikkoubi">>, columns |-> l.columns,
     rows |-> l.rows],
    [name |-> <<"sorted_by_KinshoubiMendanbi">>, columns |-> c.columns,
     rows |-> c.rows],
    [name |-> <<"TougouData">>, columns |-> u.columns, rows |-> u.rows]>>

DateSheets(frame) ==
  IF "Hiduke" \in Range(frame.columns)
  THEN LET dates == DateValues(frame)
       IN  [k \in DOMAIN dates |-> DateSheet(frame, dates[k])]
  ELSE <<>>

\* df_date['担当'] or df_date['時間'] raises KeyError on the first date sheet
SortRaises(frame) ==
  /\ "Hiduke" \in Range(frame.columns)
  /\ DateValues(frame) # <<>>
  /\ ("Tantou" \notin Range(frame.columns)
        \/ "Jikan" \notin Range(frame.columns))

WriteExcel ==
  /\ pc = "tables"
  /\ ~SortRaises(combined)
  /\ sheets' = FixedSheets(loan, cancel, combined) \o DateSheets(combined)
  /\ saved' = TRUE
  /\ pc' = "done"
  /\ UNCHANGED <<cols, df, loan, cancel, combined, timeVars>>

\* The KeyError is raised inside the ExcelWriter context after the three
\* fixed sheets were handed to the writer.  Whether the writer then stores
\* the unfinished document is decided by its context manager, which is not
\* part of this program.
WriteExcelRaise ==
  /\ pc = "tables"
  /\ SortRaises(combined)
  /\ sheets' = FixedSheets(loan, cancel, combined)
  /\ saved' \in BOOLEAN
  /\ pc' = "failed"
  /\ UNCHANGED <<cols, df, loan, cancel, combined, timeVars>>

(***************************************************************************)
(* Specification of the pipeline: sort_excel on a sheet that was read      *)
(***************************************************************************)
Timestamp(y, m, d, h) == Some([y |-> y, m |-> m, d |-> d, h |-> h])

\* 融資実行日 cells: missing, noon of 1 May, 2 May
LoanDates == {NaN, Timestamp(2024, 5, 1, 12), Timestamp(2024, 5, 2, 0)}

\* 金消日・面談日 cells: missing, 1 May
CancelDates == {NaN, Timestamp(2024, 5, 1, 0)}

AllColumns == Range(COLS_LOAN) \cup Range(COLS_CANCEL)

\* the sheet has every column, or lacks one of these
ColumnSets ==
  {AllColumns} \cup
  {AllColumns \ {c} :
     c \in {"YuushiJikkoubi", "KinshoubiMendanbi", "Keitai", "Tantou"}}

Cell(present, c, values) == IF c \in present THEN values ELSE {NaN}

RawRows(present, loanDates, cancelDates, names, loanTimes, cancelTimes) ==
  [YuushiJikkoubi : Cell(present, "YuushiJikkoubi", loanDates),
   KinshoubiMendanbi : Cell(present, "KinshoubiMendanbi", cancelDates),
   Tantou : Cell(present, "Tantou", names),
   TachiaiJikan : Cell(present, "TachiaiJikan", loanTimes),
   KinshouJikan : Cell(present, "KinshouJikan", cancelTimes)]

SeqsUpTo(S, n) == UNION {[1..k -> S] : k \in 0..n}

InitIdleTime ==
  /\ tpc = "idle"
  /\ tin = NaN
  /\ tout = NaN

Init ==
  /\ pc = "start"
  /\ cols \in ColumnSets
  /\ df \in SeqsUpTo(RawRows(cols, LoanDates, CancelDates,
                              {Some("Nakamoto")},
                              {Some(<<"9", ":", "3", "0">>)},
                              {Some(<<"1", "0">>)}), MaxRows)
  /\ loan = EmptyFrame
  /\ cancel = EmptyFrame
  /\ combined = EmptyFrame
  /\ sheets = <<>>
  /\ saved = FALSE
  /\ InitIdleTime

Next == MakeTables \/ MakeTablesRaise \/ WriteExcel \/ WriteExcelRaise

Spec == Init /\ [][Next]_vars

(***************************************************************************)
(* Specification of the date sheets: _write_excel on the tables of sheets  *)
(* whose rows carry one date each, all the same day, and differ in         *)
(* 識別, 担当 and 時間                                                      *)
(***************************************************************************)
Names == {Some("Kawachi"), Some("Nakamoto"), Some("Mitouroku"), NaN}

Times == {Some(<<"9", ":", "3", "0">>), Some(<<"1", "0">>), NaN}

OneDateRows ==
  RawRows(AllColumns, {Timestamp(2024, 5, 1, 0)}, {NaN}, Names, Times, {NaN})
    \cup
  RawRows(AllColumns, {NaN}, {Timestamp(2024, 5, 1, 0)}, Names, {NaN}, Times)

\* the indices S in ascending order of key, equal keys in index order
RECURSIVE KeyOrder(_, _)
KeyOrder(keys, S) ==
  IF S = {} THEN <<>>
  ELSE LET i == CHOOSE k \in S : \A j \in S :
                  keys[k] < keys[j] \/ (keys[k] = keys[j] /\ k <= j)
       IN  <<i>> \o KeyOrder(keys, S \ {i})

\* a view of rows that carry at most one date value: the dated rows in the
\* order of the index, then the undated rows in the order of the index
OneDateView(rows) ==
  Take(rows, Ascending({i \in DOMAIN rows : ~IsNa(rows[i].Hiduke)})
               \o Ascending({i \in DOMAIN rows : IsNa(rows[i].Hiduke)}))

\* a unified set of such views: the dated records in the order of the raw
\* rows they come from, then the undated records as concatenated
OneDateCombined(l, c) ==
  LET cc == Concat(l, c)
      rawIdx == [k \in 1..(Len(l) + Len(c)) |->
                   IF k <= Len(l) THEN l[k].idx ELSE c[k - Len(l)].idx]
  IN  Take(cc, KeyOrder(rawIdx, {k \in DOMAIN cc : ~IsNa(cc[k].Hiduke)})
                 \o Ascending({k \in DOMAIN cc : IsNa(cc[k].Hiduke)}))

InitSheet ==
  /\ pc = "tables"
  /\ cols = AllColumns
  /\ df \in SeqsUpTo(OneDateRows, MaxPart)
  /\ \E l \in {OneDateView([i \in DOMAIN df |-> LoanRow(df[i], i)])} :
       \E c \in {OneDateView([i \in DOMAIN df |-> CancelRow(df[i], i)])} :
         /\ loan = [columns |-> LoanColumns(cols), rows |-> l]
         /\ cancel = [columns |-> CancelColumns(cols), rows |-> c]
         /\ combined =
              [columns |-> OutColumns(Range(LoanColumns(cols))
                                        \cup Range(CancelColumns(cols))),
               rows |-> OneDateCombined(l, c)]
  /\ sheets = <<>>
  /\ saved = FALSE
  /\ InitIdleTime

\* the tables InitSheet starts from are tables _make_tables can return
SheetTablesReachable ==
  pc = "tables" =>
    /\ loan.rows \in LoanViews(df)
    /\ cancel.rows \in CancelViews(df)
    /\ combined.rows \in CombinedViews(loan.rows, cancel.rows)

NextSheet == WriteExcel

SpecSheet == InitSheet /\ [][NextSheet]_vars

(***************************************************************************)
(* Properties                                                              *)
(***************************************************************************)
\* _make_tables has returned
TablesBuilt == pc \in {"tables", "done"} \/ (pc = "failed" /\ sheets # <<>>)

\* the per-date sheets of a finished document (after the three fixed sheets)
DateSheetsWritten == SubSeq(sheets, 4, Len(sheets))

Count(r, rows) == Cardinality({k \in DOMAIN rows : rows[k] = r})

\* where the record with index label i stands in rows
PositionOf(i, rows) == CHOOSE k \in DOMAIN rows : rows[k].idx = i

Listed(c) == \E i \in DOMAIN TantouJun : TantouJun[i] = AsTypeStr(c)

ListPosition(c) ==
  (CHOOSE i \in DOMAIN TantouJun : TantouJun[i] = AsTypeStr(c)) - 1

\* C1: in every per-date sheet, of two records with different 識別 labels the
\* one with the larger label comes first (label descending).
C1_SourceKindDescending ==
  pc = "done" =>
    \A k \in DOMAIN DateSheetsWritten :
      LET rows == DateSheetsWritten[k].rows
      IN  \A i, j \in DOMAIN rows :
            (i < j /\ rows[i].Shikibetsu # rows[j].Shikibetsu)
              => LexLess(rows[j].Shikibetsu, rows[i].Shikibetsu)

\* C2: every record of the unified set with a date D is exactly once in the
\* sheet of D and in no other date sheet, a record without a date is in no
\* date sheet, and the date sheets hold nothing else.
C2_PartitionCorrect ==
  pc = "done" =>
    LET ds == DateSheetsWritten
    IN  /\ \A r \in Range(combined.rows) :
             IF IsNa(r.Hiduke)
             THEN \A k \in DOMAIN ds : Count(r, ds[k].rows) = 0
             ELSE /\ Cardinality({k \in DOMAIN ds :
                        ds[k].name = Replace(Val(r.Hiduke), "/", "-")}) = 1
                  /\ \A k \in DOMAIN ds :
                       Count(r, ds[k].rows) =
                         IF ds[k].name = Replace(Val(r.Hiduke), "/", "-")
                         THEN 1 ELSE 0
        /\ \A k \in DOMAIN ds : \A r \in Range(ds[k].rows) :
             r \in Range(combined.rows)

\* two date sheets, one of them with two records, and a record without date
C2_Witness ==
  /\ pc = "done"
  /\ Len(DateSheetsWritten) = 2
  /\ \E k \in DOMAIN DateSheetsWritten : Len(DateSheetsWritten[k].rows) >= 2
  /\ \E r \in Range(combined.rows) : IsNa(r.Hiduke)

\* C3: each raw row gives exactly one record of the loan view and exactly one
\* of the cancel view, dated or not, with different 識別 labels, and the
\* unified set holds each record of the two views exactly once.
C3_RowsRetained ==
  TablesBuilt =>
    /\ Len(loan.rows) = Len(df)
    /\ Len(cancel.rows) = Len(df)
    /\ \A i \in DOMAIN df :
         /\ Cardinality({k \in DOMAIN loan.rows : loan.rows[k].idx = i}) = 1
         /\ Cardinality({k \in DOMAIN cancel.rows : cancel.rows[k].idx = i})
              = 1
    /\ \A k \in DOMAIN loan.rows : \A n \in DOMAIN cancel.rows :
         /\ loan.rows[k].Shikibetsu = LoanLabel
         /\ cancel.rows[n].Shikibetsu = CancelLabel
         /\ loan.rows[k].Shikibetsu # cancel.rows[n].Shikibetsu
    /\ Len(combined.rows) = Len(loan.rows) + Len(cancel.rows)
    /\ \A k \in 1..(Len(loan.rows) + Len(cancel.rows)) :
         Count(Concat(loan.rows, cancel.rows)[k], combined.rows) = 1

\* two raw rows, one without loan date and one without cancel date
C3_Witness ==
  /\ TablesBuilt
  /\ Len(df) = 2
  /\ \E i \in DOMAIN df : IsNa(df[i].YuushiJikkoubi)
  /\ \E i \in DOMAIN df : IsNa(df[i].KinshoubiMendanbi)

\* C4: in a per-date sheet, records of one 識別 are in ascending order of the
\* position of their 担当 in 担当順, a 担当 that is not listed (or missing)
\* ranks above every listed position and so comes after every listed one.
C4_AssigneeOrder ==
  pc = "done" =>
    \A k \in DOMAIN DateSheetsWritten :
      LET rows == DateSheetsWritten[k].rows
      IN  \A i, j \in DOMAIN rows :
            (i < j /\ rows[i].Shikibetsu = rows[j].Shikibetsu) =>
              /\ Listed(rows[j].Tantou) => Listed(rows[i].Tantou)
              /\ (Listed(rows[i].Tantou) /\ Listed(rows[j].Tantou))
                   => ListPosition(rows[i].Tantou)
                        <= ListPosition(rows[j].Tantou)
              /\ ~Listed(rows[j].Tantou) =>
                   \A n \in DOMAIN TantouJun :
                     Rank(AsTypeStr(rows[j].Tantou)) > n - 1

\* the sort moved a listed 担当 in front of an unlisted one of the same 識別
C4_Witness ==
  /\ pc = "done"
  /\ \E k \in DOMAIN DateSheetsWritten :
       LET rows == DateSheetsWritten[k].rows
       IN  \E i, j \in DOMAIN rows :
             /\ i < j
             /\ rows[i].Shikibetsu = rows[j].Shikibetsu
             /\ Listed(rows[i].Tantou)
             /\ ~Listed(rows[j].Tantou)
             /\ PositionOf(rows[j].idx, combined.rows)
                  < PositionOf(rows[i].idx, combined.rows)

\* C5: in a per-date sheet, records that tie on 識別 and on 担当 rank are in
\* ascending order of the parsed seconds of 時間, and those whose 時間 parses
\* to no value come after those whose 時間 parses to a number.
C5_TimeOrder ==
  pc = "done" =>
    \A k \in DOMAIN DateSheetsWritten :
      LET rows == DateSheetsWritten[k].rows
      IN  \A i, j \in DOMAIN rows :
            (/\ i < j
             /\ rows[i].Shikibetsu = rows[j].Shikibetsu
             /\ Rank(AsTypeStr(rows[i].Tantou))
                  = Rank(AsTypeStr(rows[j].Tantou))) =>
              /\ IsNa(ParseTimeCell(rows[i].Jikan))
                   => IsNa(ParseTimeCell(rows[j].Jikan))
              /\ (~IsNa(ParseTimeCell(rows[i].Jikan))
                    /\ ~IsNa(ParseTimeCell(rows[j].Jikan)))
                   => Val(ParseTimeCell(rows[i].Jikan))
                        <= Val(ParseTimeCell(rows[j].Jikan))

\* the sort moved a record with a parsed time in front of one without,
\* within one 識別 and rank
C5_Witness ==
  /\ pc = "done"
  /\ \E k \in DOMAIN DateSheetsWritten :
       LET rows == DateSheetsWritten[k].rows
       IN  \E i, j \in DOMAIN rows :
             /\ i < j
             /\ rows[i].Shikibetsu = rows[j].Shikibetsu
             /\ Rank(AsTypeStr(rows[i].Tantou))
                  = Rank(AsTypeStr(rows[j].Tantou))
             /\ ~IsNa(ParseTimeCell(rows[i].Jikan))
             /\ IsNa(ParseTimeCell(rows[j].Jikan))
             /\ PositionOf(rows[j].idx, combined.rows)
                  < PositionOf(rows[i].idx, combined.rows)

\* C6: the time parser returns no value or hours*3600 + minutes*60 + seconds,
\* a number only when the first ':'-separated component is a non-negative
\* integer (minutes and seconds 0 when absent), and no value for a missing,
\* empty, blank or non-numeric text.
C6_ParserContract ==
  tpc = "parsed" =>
    LET t == Strip(FillNaEmpty(tin))
        parts == Split(t, ":")
        h == PyInt(parts[1])
        m == IF Len(parts) > 1 THEN PyInt(parts[2]) ELSE Some(0)
        sec == IF Len(parts) > 2 THEN PyInt(parts[3]) ELSE Some(0)
    IN  /\ ~IsNa(tout) =>
             /\ ~IsNa(h) /\ Val(h) >= 0
             /\ ~IsNa(m) /\ ~IsNa(sec)
             /\ Val(tout) = Val(h) * 3600 + Val(m) * 60 + Val(sec)
        /\ (IsNa(tin) \/ t = <<>>) => IsNa(tout)
        /\ (IsNa(h) \/ IsNa(m) \/ IsNa(sec)) => IsNa(tout)

C8_UnifierStable ==
  TablesBuilt =>
    \A i, j \in DOMAIN combined.rows :
      i < j =>
        /\ IsNa(combined.rows[i].Hiduke) => IsNa(combined.rows[j].Hiduke)
        /\ combined.rows[i].Hiduke = combined.rows[j].Hiduke
             => combined.rows[i].idx < combined.rows[j].idx

\* C9: two records of a per-date sheet with the same 識別, the same 担当 rank
\* and the same parsed 時間 stand in the order they have in the unified set.
C9_DateSheetStable ==
  pc = "done" =>
    \A k \in DOMAIN DateSheetsWritten :
      LET rows == DateSheetsWritten[k].rows
      IN  \A i, j \in DOMAIN rows :
            (/\ i < j
             /\ rows[i].Shikibetsu = rows[j].Shikibetsu
             /\ Rank(AsTypeStr(rows[i].Tantou))
                  = Rank(AsTypeStr(rows[j].Tantou))
             /\ ParseTimeCell(rows[i].Jikan) = ParseTimeCell(rows[j].Jikan))
              => PositionOf(rows[i].idx, combined.rows)
                   < PositionOf(rows[j].idx, combined.rows)

\* a date sheet with two records that tie on all three keys although their
\* 担当 and 時間 cells differ
C9_Witness ==
  /\ pc = "done"
  /\ \E k \in DOMAIN DateSheetsWritten :
       LET rows == DateSheetsWritten[k].rows
       IN  \E i, j \in DOMAIN rows :
             /\ i < j
             /\ SortKeys(rows[i]) = SortKeys(rows[j])
             /\ rows[i].Tantou # rows[j].Tantou

ValidLoanDates == Cardinality({i \in DOMAIN df : ~IsNa(df[i].YuushiJikkoubi)})

ValidCancelDates ==
  Cardinality({i \in DOMAIN df : ~IsNa(df[i].KinshoubiMendanbi)})

\* C10: the unified set has as many records as there are raw rows with a
\* loan date plus raw rows with a cancel date.
C10_UnifiedSizeIsValidDates ==
  TablesBuilt => Len(combined.rows) = ValidLoanDates + ValidCancelDates

\* C10 as amended: the unified set has as many dated records as there are raw
\* rows with a loan date plus raw rows with a cancel date (and two records
\* for every raw row in all).
C10_DatedRecordsAreValidDates ==
  TablesBuilt =>
    /\ Cardinality({k \in DOMAIN combined.rows :
                      ~IsNa(combined.rows[k].Hiduke)})
         = ValidLoanDates + ValidCancelDates
    /\ Len(combined.rows) = 2 * Len(df)

\* tables of a sheet with a dated and an undated cell in each date column
C10_Witness ==
  /\ TablesBuilt
  /\ ValidLoanDates = 1
  /\ ValidCancelDates = 1
  /\ Len(combined.rows) = 4

====
